---- MODULE Spec2Model ----
(***************************************************************************)
(* A model of analysis.py: the synthetic supply-chain table df_all, the    *)
(* subset selector get_recent_df, the statistics and ranking computed by   *)
(* render_analysis, the artifacts it displays, and the IntSlider bound to  *)
(* it by interactive_output.                                               *)
(*                                                                         *)
(* Numbers.  The table holds floats; the model holds integers.  A summary  *)
(* value is kept in hundredths (round(2)), a correlation in thousandths    *)
(* (round(3)).  A float that may be NaN is a record [nan, v].  The Pearson  *)
(* coefficient before rounding is kept exactly, as the pair (num, den2)    *)
(* standing for num / sqrt(den2).  Every intermediate stays below 2^31.    *)
(***************************************************************************)
EXTENDS Integers, Sequences, FiniteSets, TLC

VARIABLES
    df_all,   \* the module-level DataFrame (line 35)
    slider,   \* slider.value (line 73)
    out,      \* the Output widget returned by interactive_output (line 132)
    calls,    \* arguments render_analysis was invoked with by the last slider event
    cell      \* the last notebook cell that called a function directly

vars == <<df_all, slider, out, calls, cell>>

----------------------------------------------------------------------------
(* Bounds of the model *)

\* how many generated tables Init draws from
NumSeeds == 2
\* how far beyond [2, n_rows] the arguments of direct calls (and beyond
\* [min, max] the values proposed to the slider) reach
ArgSlack == 2
\* how many trailing rows an artificially constant field is held constant for
ConstTail == 10

(* Program constants *)

n_rows == 74
MinRows == 2
SliderMin == 5
SliderDefault == 20
TopK == 3
SummaryDecimals == 2
CorrDecimals == 3
HeatmapRange == 1

----------------------------------------------------------------------------
(* Column labels, in the DataFrame's column order *)

Columns ==
    << "Supplier_Lead_Time", "Inventory_Levels", "Order_Frequency",
       "Delivery_Performance", "Cost_Per_Unit" >>

ColSet == {Columns[i] : i \in 1..Len(Columns)}

\* Python compares str by code point.  The five labels differ in their first
\* character, which therefore decides var1 < var2: S=83 I=73 O=79 D=68 C=67.
FirstChar ==
    [c \in ColSet |->
        CASE c = "Supplier_Lead_Time" -> 83
          [] c = "Inventory_Levels" -> 73
          [] c = "Order_Frequency" -> 79
          [] c = "Delivery_Performance" -> 68
          [] c = "Cost_Per_Unit" -> 67]

StrLess(a, b) == FirstChar[a] < FirstChar[b]

----------------------------------------------------------------------------
(* Floats *)

\* a function held as the table of its values: pandas computes a frame once
Table(f) == f @@ <<>>

NaN == [nan |-> TRUE, v |-> 0]
Num(x) == [nan |-> FALSE, v |-> x]

\* IEEE ==: NaN equals nothing, itself included
FloatEq(a, b) == ~a.nan /\ ~b.nan /\ a.v = b.v

Abs(x) == IF x < 0 THEN -x ELSE x

\* Series.abs(): NaN stays NaN
FloatAbs(a) == IF a.nan THEN NaN ELSE Num(Abs(a.v))

RECURSIVE IsqrtIter(_, _, _)
IsqrtIter(q, lo, hi) ==
    IF lo = hi THEN lo
    ELSE LET mid == (lo + hi + 1) \div 2
         IN  IF mid * mid <= q THEN IsqrtIter(q, mid, hi)
             ELSE IsqrtIter(q, lo, mid - 1)

\* floor(sqrt(q)) for 0 <= q < 2^31
Isqrt(q) == IsqrtIter(q, 0, 46340)

\* floor and remainder of (q + r/den) * 10^k, by long division
RECURSIVE ShiftDiv(_, _, _, _)
ShiftDiv(q, r, den, k) ==
    IF k = 0 THEN [q |-> q, r |-> r]
    ELSE ShiftDiv(q * 10 + ((r * 10) \div den), (r * 10) % den, den, k - 1)

\* round-half-even of sqrt(x) where 4x = qr.q + qr.r/den: the nearest integer
\* k is the largest with (2k-1)^2 <= 4x; an exact half goes to the even side
RoundSqrt(qr) ==
    LET k == (Isqrt(qr.q) + 1) \div 2
    IN  IF k >= 1 /\ qr.r = 0 /\ (2 * k - 1) * (2 * k - 1) = qr.q /\ k % 2 = 1
        THEN k - 1 ELSE k

\* round-half-even of a / b, a >= 0, b > 0
RoundDiv(a, b) ==
    LET q == a \div b
        r == a % b
    IN  IF 2 * r < b THEN q
        ELSE IF 2 * r > b THEN q + 1
        ELSE IF q % 2 = 0 THEN q ELSE q + 1

RECURSIVE Pow10(_)
Pow10(k) == IF k = 0 THEN 1 ELSE 10 * Pow10(k - 1)

RECURSIVE Sum(_, _)
Sum(s, i) == IF i = 0 THEN 0 ELSE s[i] + Sum(s, i - 1)

RECURSIVE SumProd(_, _, _)
SumProd(s, t, i) == IF i = 0 THEN 0 ELSE s[i] * t[i] + SumProd(s, t, i - 1)

\* n^2 times the population covariance of two columns
Cov(s, t) == Len(s) * SumProd(s, t, Len(s)) - Sum(s, Len(s)) * Sum(t, Len(t))

----------------------------------------------------------------------------
(* CELL 1: the table *)

\* One draw of the seeded sampler, after np.clip.  The sampler is a black
\* box; the model draws small integers that lie inside every column's clip
\* range (Delivery_Performance: [40, 100]; the others: a lower bound <= 40).
Sample(seed, c, i) ==
    40 + ((((i * i * (c + seed)) + (i * (3 * c + 1)) + (seed * c)) % 101) % 4)

RangeIndex(n) == [i \in 1..n |-> i - 1]

Generated(seed) ==
    [index |-> RangeIndex(n_rows),
     cols  |-> [c \in ColSet |->
                  LET k == CHOOSE j \in 1..Len(Columns) : Columns[j] = c
                  IN  [i \in 1..n_rows |-> Sample(seed, k, i)]]]

\* the same table with the fields in held kept constant over the last
\* ConstTail rows
HoldConstant(df, held) ==
    [df EXCEPT !.cols =
        [c \in ColSet |->
            IF c \in held
            THEN [i \in 1..n_rows |->
                    IF i > n_rows - ConstTail /\ n_rows > ConstTail
                    THEN df.cols[c][n_rows - ConstTail] ELSE df.cols[c][i]]
            ELSE df.cols[c]]]

Length(df) == Len(df.index)

\* DataFrame.tail(n), n >= 0: the last n rows, labels kept
tail(df, n) ==
    LET m == IF n > Length(df) THEN Length(df) ELSE n
        lo == Length(df) - m + 1
    IN  [index |-> SubSeq(df.index, lo, Length(df)),
         cols  |-> Table([c \in ColSet |-> SubSeq(df.cols[c], lo, Length(df))])]

\* DataFrame.reset_index(drop=True): a new frame labelled 0..n-1
reset_index_drop(df) == [df EXCEPT !.index = RangeIndex(Length(df))]

\* get_recent_df without the floor of 2 rows
get_recent_df_nofloor(df, n_rows_to_use) ==
    [ret |-> reset_index_drop(tail(df, n_rows_to_use)), df_all |-> df]

\* get_recent_df that cuts the global table down to the rows it returns
get_recent_df_inplace(df, n_rows_to_use) ==
    LET n == IF n_rows_to_use < MinRows THEN MinRows ELSE n_rows_to_use
    IN  [ret |-> reset_index_drop(tail(df, n)), df_all |-> reset_index_drop(tail(df, n))]

\* get_recent_df(n_rows_to_use), lines 47-55.  The function reads the global
\* df_all; the result carries what it returns (ret) and the global after the
\* call (df_all).
get_recent_df(df, n_rows_to_use) ==
    LET n == IF n_rows_to_use < MinRows THEN MinRows ELSE n_rows_to_use
    IN  [ret |-> reset_index_drop(tail(df, n)), df_all |-> df]

----------------------------------------------------------------------------
(* CELL 2: statistics *)

Min(s) == CHOOSE x \in {s[i] : i \in 1..Len(s)} : \A i \in 1..Len(s) : x <= s[i]
Max(s) == CHOOSE x \in {s[i] : i \in 1..Len(s)} : \A i \in 1..Len(s) : x >= s[i]

\* the k-th smallest element of s
Kth(s, k) ==
    CHOOSE x \in {s[i] : i \in 1..Len(s)} :
        /\ Cardinality({i \in 1..Len(s) : s[i] < x}) < k
        /\ Cardinality({i \in 1..Len(s) : s[i] <= x}) >= k

\* describe().loc[['mean','std','min','50%','max']].T.round(2), line 84:
\* one row per column, values in hundredths; std is the sample (ddof=1) one
describe_round2(cur) ==
    Table([c \in ColSet |->
        LET s == cur.cols[c]
            n == Len(s)
            m == n * (n - 1)
            v4 == 4 * Cov(s, s)
            SummaryScale == Pow10(SummaryDecimals)
        IN  [mean |-> RoundDiv(SummaryScale * Sum(s, n), n),
             std  |-> RoundSqrt(ShiftDiv(v4 \div m, v4 % m, m, 2 * SummaryDecimals)),
             min  |-> SummaryScale * Min(s),
             p50  |-> IF n % 2 = 1 THEN SummaryScale * Kth(s, (n + 1) \div 2)
                      ELSE (SummaryScale \div 2) * (Kth(s, n \div 2) + Kth(s, n \div 2 + 1)),
             max  |-> SummaryScale * Max(s)]])

\* Pearson's r with a zero-variance column silently reported as 0
Pearson_zeroed(s, t) ==
    LET d == Cov(s, s) * Cov(t, t)
    IN  IF d = 0 THEN [nan |-> FALSE, num |-> 0, den2 |-> 1]
        ELSE [nan |-> FALSE, num |-> Cov(s, t), den2 |-> d]

\* Pearson's r of two columns at full precision: num / sqrt(den2), NaN when
\* either column has zero variance (the divisor is 0)
Pearson(s, t) ==
    LET d == Cov(s, s) * Cov(t, t)
    IN  IF d = 0 THEN [nan |-> TRUE, num |-> 0, den2 |-> 1]
        ELSE [nan |-> FALSE, num |-> Cov(s, t), den2 |-> d]

ColPos(c) == CHOOSE j \in 1..Len(Columns) : Columns[j] = c

\* DataFrame.corr(): the coefficient is computed once per unordered pair
\* (diagonal included) and stored at both places
corr_full(cur) ==
    LET upper == Table([p \in {q \in ColSet \X ColSet : ColPos(q[1]) <= ColPos(q[2])} |->
                          Pearson(cur.cols[p[1]], cur.cols[p[2]])])
    IN  Table([a \in ColSet |-> Table([b \in ColSet |->
            IF ColPos(a) <= ColPos(b) THEN upper[<<a, b>>] ELSE upper[<<b, a>>]])])

\* one coefficient rounded to 3 decimals, in thousandths
Round3(r) ==
    IF r.nan THEN NaN
    ELSE LET s4 == 4 * r.num * r.num
             k == RoundSqrt(ShiftDiv(s4 \div r.den2, s4 % r.den2, r.den2, 2 * CorrDecimals))
         IN  Num(IF r.num < 0 THEN -k ELSE k)

\* .round(3), line 87
round3(m) == Table([a \in ColSet |-> Table([b \in ColSet |-> Round3(m[a][b])])])

----------------------------------------------------------------------------
(* CELL 2: ranking, lines 104-109 *)

\* corr.unstack().reset_index() with columns var1, var2, corr: one row per
\* (column label, row label), column-major
corr_unstack(corr) ==
    Table([k \in 1..(Len(Columns) * Len(Columns)) |->
        LET v1 == Columns[((k - 1) \div Len(Columns)) + 1]
            v2 == Columns[((k - 1) % Len(Columns)) + 1]
        IN  [var1 |-> v1, var2 |-> v2, corr |-> corr[v2][v1]]])

\* the filter written as var1 != var2: self pairs go, mirrored pairs stay
KeepPair_unequal(row) == row.var1 # row.var2

KeepPair(row) == StrLess(row.var1, row.var2)

\* rows with var1 < var2, then the abs_corr column
corr_pairs(corr) ==
    LET kept == SelectSeq(corr_unstack(corr), KeepPair)
    IN  Table([k \in 1..Len(kept) |->
            [var1 |-> kept[k].var1, var2 |-> kept[k].var2,
             corr |-> kept[k].corr, abs_corr |-> FloatAbs(kept[k].corr)]])

\* the k-th largest of the non-NaN abs_corr of rows
KthLargest(rows, nn, k) ==
    CHOOSE x \in {rows[i].abs_corr.v : i \in nn} :
        /\ Cardinality({i \in nn : rows[i].abs_corr.v > x}) < k
        /\ Cardinality({i \in nn : rows[i].abs_corr.v >= x}) >= k

\* sort_values('abs_corr', ascending=False).head(3), line 109.  The default
\* sort kind is not stable: rows with equal abs_corr may come out in any
\* order.  NaN rows go last (na_position='last'), in their original order.
\* The value is the set of row-index sequences the call can return.
sort_values_head(rows) ==
    LET nn == {i \in 1..Len(rows) : ~rows[i].abs_corr.nan}
        na == SelectSeq([i \in 1..Len(rows) |-> i],
                        LAMBDA i : rows[i].abs_corr.nan)
        m  == IF Len(rows) < TopK THEN Len(rows) ELSE TopK
        Cand == Table([k \in 1..m |->
                    IF k <= Cardinality(nn)
                    THEN {i \in nn : rows[i].abs_corr.v = KthLargest(rows, nn, k)}
                    ELSE {na[k - Cardinality(nn)]}])
    IN  {t \in [1..m -> 1..Len(rows)] :
            /\ \A k \in 1..m : t[k] \in Cand[k]
            /\ \A j, k \in 1..m : j # k => t[j] # t[k]}

----------------------------------------------------------------------------
(* CELL 2: the display *)

\* An output area: the artifacts shown, and whether a clear_output(wait=True)
\* is pending (the area is emptied when the next artifact arrives)
EmptyOutput == [wait |-> FALSE, outputs |-> <<>>]

\* clear_output(wait=True), line 90
clear_output(o) == [o EXCEPT !.wait = TRUE]

\* display that ignores a pending clear
display_append(o, x) == [o EXCEPT !.outputs = Append(@, x)]

\* display(x) / plt.show()
display(o, x) ==
    IF o.wait THEN [wait |-> FALSE, outputs |-> <<x>>]
    ELSE [o EXCEPT !.outputs = Append(@, x)]

\* the f-string of lines 93-102: the row count, then the three means
md_head(n_rows_selected, summary) ==
    << [line |-> "rows", n |-> n_rows_selected],
       [line |-> "mean", field |-> "Supplier_Lead_Time",
        value |-> summary["Supplier_Lead_Time"].mean],
       [line |-> "mean", field |-> "Inventory_Levels",
        value |-> summary["Inventory_Levels"].mean],
       [line |-> "mean", field |-> "Delivery_Performance",
        value |-> summary["Delivery_Performance"].mean],
       [line |-> "top"] >>

\* lines 111-112: one line per row of top_pairs
md_pairs(top_pairs) ==
    [k \in 1..Len(top_pairs) |->
        [line |-> "pair", var1 |-> top_pairs[k].var1,
         var2 |-> top_pairs[k].var2, corr |-> top_pairs[k].corr]]

\* lines 115-129, for one outcome top_pairs of the sort
show(o, n_rows_selected, summary, corr, top_pairs) ==
    LET o1 == display(o, [kind |-> "markdown",
                          md |-> md_head(n_rows_selected, summary) \o md_pairs(top_pairs)])
        o2 == display(o1, [kind |-> "markdown", md |-> <<[line |-> "Correlation matrix:"]>>])
        o3 == display(o2, [kind |-> "table", data |-> corr])
        o4 == display(o3, [kind |-> "heatmap", data |-> corr,
                           vmin |-> -HeatmapRange, vmax |-> HeatmapRange,
                           title_n |-> n_rows_selected])
        o5 == display(o4, [kind |-> "markdown",
                           md |-> <<[line |-> "Summary statistics (selected subset):"]>>])
    IN  display(o5, [kind |-> "table", data |-> summary])

\* render_analysis(n_rows_selected), lines 75-129, writing to output area o:
\* the set of results the call can have, each the area after the call (out),
\* the global table after it (df_all) and the locals the claims speak of
render_analysis(o, df, n_rows_selected) ==
    LET got        == get_recent_df(df, n_rows_selected)
        current_df == got.ret
        summary    == describe_round2(current_df)
        corr       == round3(corr_full(current_df))
        cleared    == clear_output(o)
        pairs      == corr_pairs(corr)
    IN  {[out |-> show(cleared, n_rows_selected, summary, corr,
                       [k \in 1..Len(t) |-> pairs[t[k]]]),
          df_all |-> got.df_all,
          rows |-> Length(current_df)] : t \in sort_values_head(pairs)}

----------------------------------------------------------------------------
(* The slider and its binding *)

\* a slider that takes any proposed value
IntSliderValidate_unbounded(v, df) == v

\* IntSlider(min=5, max=len(df_all)): a proposed value is capped and floored
IntSliderValidate(v, df) ==
    IF v > Length(df) THEN Length(df)
    ELSE IF v < SliderMin THEN SliderMin ELSE v

\* the observer interactive_output registers, lines 131-132: with the Output
\* widget as the display target, clear it and call f with the slider's value
observer(o, df, value) == render_analysis(clear_output(o), df, value)

Seeds == 1..NumSeeds

\* arguments of direct calls; values proposed to the slider
Args == (MinRows - ArgSlack)..(n_rows + ArgSlack)
Proposals == (SliderMin - ArgSlack)..(n_rows + ArgSlack)
NoCell == [fn |-> "none", arg |-> 0, rows |-> 0, ret |-> <<>>, output |-> EmptyOutput]

\* the state once both cells have run: the table, the slider at its default,
\* and the first rendering interactive_output makes when it is created
InitWith(df) ==
    /\ df_all = df
    /\ slider = SliderDefault
    /\ calls = <<SliderDefault>>
    /\ \E r \in observer(EmptyOutput, df, SliderDefault) : out = r.out
    /\ cell = NoCell

Init == \E seed \in Seeds : InitWith(Generated(seed))

InitStats ==
    \E seed \in Seeds, held \in SUBSET ColSet :
        InitWith(HoldConstant(Generated(seed), held))

\* the slider's value is set (dragged, typed, assigned); a change of value
\* notifies the observer, which runs before the handler returns
SetSliderValue(v) ==
    LET value == IntSliderValidate(v, df_all)
    IN  /\ value # slider
        /\ slider' = value
        /\ \E r \in observer(out, df_all, value) :
              /\ out' = r.out
              /\ df_all' = r.df_all
        /\ calls' = <<value>>
        /\ UNCHANGED cell

\* a fresh notebook cell evaluates get_recent_df(n)
CallGetRecent(n) ==
    LET got == get_recent_df(df_all, n)
    IN  /\ cell = NoCell
        /\ cell' = [fn |-> "get_recent_df", arg |-> n, rows |-> Length(got.ret),
                    ret |-> got.ret, output |-> EmptyOutput]
        /\ df_all' = got.df_all
        /\ UNCHANGED <<slider, out, calls>>

\* a fresh notebook cell evaluates render_analysis(n); its artifacts go to
\* the cell's own output area
CallRenderAnalysis(n) ==
    /\ cell = NoCell
    /\ \E r \in render_analysis(EmptyOutput, df_all, n) :
        /\ cell' = [fn |-> "render_analysis", arg |-> n, rows |-> r.rows,
                    ret |-> <<>>, output |-> r.out]
        /\ df_all' = r.df_all
        /\ UNCHANGED <<slider, out, calls>>

\* the user moves on to a fresh cell
NewCell ==
    /\ cell # NoCell
    /\ cell' = NoCell
    /\ UNCHANGED <<df_all, slider, out, calls>>

Next == \E v \in Proposals : SetSliderValue(v)

NextCall ==
    \/ \E n \in Args : CallGetRecent(n)
    \/ \E n \in Args : CallRenderAnalysis(n)
    \/ NewCell

NextStats ==
    \/ \E n \in Args : CallRenderAnalysis(n)
    \/ NewCell

\* the notebook as wired: the slider drives everything
Spec == Init /\ [][Next]_vars

\* the two functions called directly, with any argument
SpecCall == Init /\ [][NextCall]_vars

\* render_analysis called directly on tables with artificially constant fields
SpecStats == InitStats /\ [][NextStats]_vars

----------------------------------------------------------------------------
(* What a rendering shows *)

Rendered == cell.fn = "render_analysis"

\* the narrative's lines, the ranked pairs' lines, the two tables, the heatmap
MdLines(o) == o.outputs[1].md
PairLines(o) == SelectSeq(MdLines(o), LAMBDA l : l.line = "pair")
CorrShown(o) == o.outputs[3].data
HeatmapShown(o) == o.outputs[4]
SummaryShown(o) == o.outputs[6].data

Clamp(n, lo, hi) == IF n < lo THEN lo ELSE IF n > hi THEN hi ELSE n

\* the pair (var1, var2) precedes (w1, w2) in lexicographic field-name order
LexLess(p, q) ==
    \/ StrLess(p.var1, q.var1)
    \/ p.var1 = q.var1 /\ StrLess(p.var2, q.var2)

\* a/b < c/d for a, c >= 0 and b, d > 0, by continued fractions
RECURSIVE FracLess(_, _, _, _)
FracLess(a, b, c, d) ==
    IF a \div b # c \div d THEN a \div b < c \div d
    ELSE IF c % d = 0 THEN FALSE
    ELSE IF a % b = 0 THEN TRUE
    ELSE FracLess(d, c % d, b, a % b)

\* |x| < |y| for two full-precision coefficients, NaN below every number
ExactAbsLess(x, y) ==
    IF y.nan THEN FALSE
    ELSE IF x.nan THEN TRUE
    ELSE FracLess(x.num * x.num, x.den2, y.num * y.num, y.den2)

\* the ten pairs the ranking draws from
LexPairs == {p \in ColSet \X ColSet : StrLess(p[1], p[2])}

\* lines is in descending order of |corr|, NaN last
DescendingAbs(lines) ==
    \A k \in 1..(Len(lines) - 1) :
        \/ lines[k + 1].corr.nan
        \/ ~lines[k].corr.nan /\ Abs(lines[k].corr.v) >= Abs(lines[k + 1].corr.v)

ConstantIn(cur, c) == Min(cur.cols[c]) = Max(cur.cols[c])

----------------------------------------------------------------------------
(* C1 *)

\* C1: get_recent_df(n) returns exactly clamp(n, 2, 74) records, and they are
\* the last clamp(n, 2, 74) records of df_all in their original order.
C1_GetRecentIsClampedTail ==
    cell.fn = "get_recent_df" =>
        LET k == Clamp(cell.arg, 2, 74)
        IN  /\ Length(cell.ret) = k
            /\ \A c \in ColSet : Len(cell.ret.cols[c]) = k
            /\ \A c \in ColSet, i \in 1..k :
                  cell.ret.cols[c][i] = df_all.cols[c][Length(df_all) - k + i]

\* get_recent_df(1) has returned the 2 last records
C1_Witness ==
    /\ cell.fn = "get_recent_df"
    /\ cell.arg = 1
    /\ Length(cell.ret) = 2
    /\ \A c \in ColSet : cell.ret.cols[c] = SubSeq(df_all.cols[c], 73, 74)

(* C2 *)

\* C2: the control value is always an integer in [5, 74], the last change of
\* it ran render_analysis exactly once, with the new value, and what is
\* displayed is exactly the output computed from the current value.
C2_DisplayFollowsControl ==
    /\ slider \in 5..74
    /\ calls = <<slider>>
    /\ out \in {r.out : r \in render_analysis(EmptyOutput, df_all, slider)}

\* the control has been changed to its maximum and the display followed
C2_Witness ==
    /\ slider = 74
    /\ calls = <<74>>
    /\ MdLines(out)[1].n = 74

(* C3 *)

C4_RankedPairsWellFormed ==
    Rendered =>
        LET lines == PairLines(cell.output)
        IN  /\ Len(lines) <= 3
            /\ Len(lines) = (IF Cardinality(LexPairs) < 3 THEN Cardinality(LexPairs) ELSE 3)
            /\ \A k \in 1..Len(lines) : <<lines[k].var1, lines[k].var2>> \in LexPairs
            /\ \A j, k \in 1..Len(lines) :
                  j # k => {lines[j].var1, lines[j].var2} # {lines[k].var1, lines[k].var2}
            /\ DescendingAbs(lines)

\* three pairs of strictly decreasing absolute correlation have been ranked
C4_Witness ==
    /\ Rendered
    /\ LET lines == PairLines(cell.output)
       IN  /\ Len(lines) = 3
           /\ \A k \in 1..3 : ~lines[k].corr.nan
           /\ Abs(lines[1].corr.v) > Abs(lines[2].corr.v)
           /\ Abs(lines[2].corr.v) > Abs(lines[3].corr.v)

(* C5 *)

\* C5: for every subset (fields constant in it included) the correlation
\* matrix is symmetric and its diagonal is exactly 1.0 for each of the 5
\* fields.
C5_SymmetricUnitDiagonal ==
    Rendered =>
        LET m == CorrShown(cell.output)
        IN  /\ \A a, b \in ColSet : FloatEq(m[a][b], m[b][a])
            /\ \A a \in ColSet : FloatEq(m[a][a], Num(1000))

(* C6 *)

\* C6: when a field is constant across the subset, its correlation with every
\* other field is NaN in the matrix, and a ranked pair that involves it comes
\* after every pair whose correlation is defined.
C6_ConstantFieldIsNaNAndLast ==
    Rendered =>
        LET cur == tail(df_all, cell.rows)
            m == CorrShown(cell.output)
            lines == PairLines(cell.output)
            defined == {p \in LexPairs : ~m[p[1]][p[2]].nan}
        IN  \A f \in ColSet :
                ConstantIn(cur, f) =>
                    /\ \A g \in ColSet \ {f} : m[f][g].nan /\ m[g][f].nan
                    /\ \A k \in 1..Len(lines) :
                          f \in {lines[k].var1, lines[k].var2} =>
                              /\ lines[k].corr.nan
                              /\ defined \subseteq
                                    {<<lines[j].var1, lines[j].var2>> : j \in 1..(k - 1)}

\* a pair of a constant field has been ranked, behind the only defined pair
C6_Witness ==
    /\ Rendered
    /\ LET cur == tail(df_all, cell.rows)
           lines == PairLines(cell.output)
       IN  /\ ~lines[1].corr.nan
           /\ lines[2].corr.nan
           /\ \E f \in {lines[2].var1, lines[2].var2} : ConstantIn(cur, f)

(* C7 *)

\* C7: ranked pairs of equal absolute correlation appear in the pairs'
\* lexicographic field-name order (var1, then var2).
C7_TiesInLexicographicOrder ==
    LET lines == PairLines(out)
    IN  \A k \in 1..(Len(lines) - 1) :
            (/\ ~lines[k].corr.nan
             /\ ~lines[k + 1].corr.nan
             /\ Abs(lines[k].corr.v) = Abs(lines[k + 1].corr.v))
                => LexLess(lines[k], lines[k + 1])

(* C8 *)

\* C8: the ranked pairs are those that ranking the unrounded matrix gives:
\* they are in descending order of the full-precision absolute correlation,
\* and no pair left out has a larger one than a pair ranked.
C8_RankingAtFullPrecision ==
    LET full == corr_full(get_recent_df(df_all, slider).ret)
        lines == PairLines(out)
        ranked == {<<lines[k].var1, lines[k].var2>> : k \in 1..Len(lines)}
        E(p) == full[p[1]][p[2]]
    IN  /\ \A k \in 1..(Len(lines) - 1) :
              ~ExactAbsLess(E(<<lines[k].var1, lines[k].var2>>),
                            E(<<lines[k + 1].var1, lines[k + 1].var2>>))
        /\ \A p \in ranked, q \in LexPairs \ ranked : ~ExactAbsLess(E(p), E(q))

(* C9 *)

\* C9: what a run leaves displayed is its own artifacts and nothing older, in
\* this order: the narrative (row count, then the three means) with the
\* ranked pairs after it, the correlation table, the heatmap with range
\* [-1, 1], the summary table.
C9_ArtifactsInOrder ==
    LET o == out.outputs
        md == MdLines(out)
    IN  /\ ~out.wait
        /\ [k \in 1..Len(o) |-> o[k].kind]
              = <<"markdown", "markdown", "table", "heatmap", "markdown", "table">>
        /\ [k \in 1..Len(md) |-> md[k].line]
              = <<"rows", "mean", "mean", "mean", "top", "pair", "pair", "pair">>
        /\ md[2].field = "Supplier_Lead_Time"
        /\ md[3].field = "Inventory_Levels"
        /\ md[4].field = "Delivery_Performance"
        /\ md[1].n = slider
        /\ o[2].md[1].line = "Correlation matrix:"
        /\ o[4].vmin = -1 /\ o[4].vmax = 1
        /\ o[4].title_n = slider
        /\ o[4].data = o[3].data
        /\ o[5].md[1].line = "Summary statistics (selected subset):"
        /\ \A c \in ColSet : DOMAIN o[6].data[c] = {"mean", "std", "min", "p50", "max"}
        /\ \A k \in 2..4 : md[k].value = o[6].data[md[k].field].mean

\* the control has been moved off its default and the run's artifacts stand
C9_Witness ==
    /\ slider = 33
    /\ Len(out.outputs) = 6
    /\ HeatmapShown(out).title_n = 33

(* C10 *)

\* C10: the row count stated in the narrative and in the heatmap title is the
\* number of records of the subset analysed.
C10_StatedRowCountIsSubsetSize ==
    Rendered =>
        /\ MdLines(cell.output)[1].n = cell.rows
        /\ HeatmapShown(cell.output).title_n = cell.rows

====
